---- MODULE Spec2Model ----
(***************************************************************************)
(* A model of paygate's transfer orchestration and micro-deposit cursor.   *)
(*                                                                         *)
(*   internal/depository/verification/microdeposit/cursor.go               *)
(*       Cursor.Next, the watermark cursor over micro_deposits             *)
(*   internal/transfers/transfers.go                                       *)
(*       createUserTransfers, deleteUserTransfer, getTransferObjects       *)
(*   internal/route (only its test is in the source tree)                  *)
(*       NewResponder and IdempotentRecorder.SeenBefore                    *)
(*                                                                         *)
(* Each part has its own specification; a specification leaves the         *)
(* variables of the other parts alone.                                     *)
(***************************************************************************)
EXTENDS Integers, Sequences, FiniteSets, TLC

VARIABLES
    \* ---- micro-deposit cursor ----
    store,        \* the micro_deposits table: credit id -> row, Deleted or Absent
    batchSize,    \* Cursor.BatchSize
    newerThan,    \* Cursor.newerThan, the watermark
    out,          \* the slice the last Next() returned (credit ids, in order)
    err,          \* the error the last Next() returned ("nil": none; "unset": no call yet)
    returned,     \* every credit id some Next() has returned so far
    writes,       \* writes other code has made to the table so far
    \* ---- idempotency recorder ----
    seen,         \* the keys route.IdempotentRecorder holds
    seenLog,      \* the SeenBefore calls of SpecRecorder so far: <<key, answer>>
    \* ---- transfer creation ----
    cfg,          \* which optional clients the router holds (non-nil)
    pc,           \* where the createUserTransfers handler stands
    key,          \* the x-idempotency-key header of the call (NoKey: none)
    body,         \* the request body of the call
    idx,          \* i of the for loop over requests
    objs,         \* what the repositories hold for the ids requests[i] names
    log,          \* the collaborator calls of the call, in order
    resp,         \* what the call wrote as its response
    nth,          \* the call is the nth creation submitted with its key
    submitted,    \* creations submitted so far, per idempotency key
    okKeys,       \* the keys whose creation was answered with success
    \* ---- transfer repository and deletion ----
    transfers,    \* transfer id -> record, or NoTransfer
    del,          \* what the last deleteUserTransfer call did
    \* ---- a transfer request on its own ----
    request,      \* a transferRequest: the JSON fields it leaves empty
    missing,      \* whether missingFields() was called on it, and the fields it named
    \* ---- workers sharing one cursor ----
    wpc,          \* worker -> where its Next() call stands
    wrows,        \* worker -> the rows its query has answered with
    wmax,         \* worker -> max, the local of its Next() call
    got,          \* worker -> the credits its Next() calls have returned
    overlapped,   \* whether two Next() calls have been in progress at once
    \* ---- the server's clock when a cursor is made ----
    clock         \* time.Now() as a UTC instant, the offset of time.Local, and
                  \* whether GetCursor has been called

cursorVars == <<store, batchSize, newerThan, out, err, returned, writes>>
recorderVars == <<seen, seenLog>>
createVars == <<cfg, pc, key, body, idx, objs, log, resp, nth, submitted, okKeys>>
repoVars == <<transfers, del>>

fieldsVars == <<request, missing>>
workerVars == <<wpc, wrows, wmax, got, overlapped>>

vars == <<store, batchSize, newerThan, out, err, returned, writes, seen, seenLog,
          cfg, pc, key, body, idx, objs, log, resp, nth, submitted, okKeys,
          transfers, del, request, missing, wpc, wrows, wmax, got, overlapped,
          clock>>

-----------------------------------------------------------------------------
(* Bounds of the model *)

MaxCredits == 3      \* rows the micro_deposits table can hold
MaxTime == 3         \* creation timestamps are 1..MaxTime; the day starts at 0
MaxWrites == 3       \* writes by other code during one cursor's life
MaxBatch == 2        \* batch sizes are 1..MaxBatch

CreditIds == 1..MaxCredits
Times == 1..MaxTime
DayStart == 0

Absent == [absent |-> TRUE]

\* A row of micro_deposits, as far as the cursor's query reads it.
\*   merged   : merged_filename is not null
\*   deleted  : deleted_at is not null
\*   amountOK : model.Amount.FromString accepts the amount column
CreditRows ==
    [createdAt : Times, merged : BOOLEAN, amountOK : BOOLEAN]
Deleted == [deleted |-> TRUE]

-----------------------------------------------------------------------------
(* Cursor.Next *)

\* where deleted_at is null and merged_filename is null
Eligible(row) == row # Absent /\ row # Deleted /\ ~row.merged

\* ... and created_at > ?
\*   (variant: created_at >= ?)
AfterWatermarkInclusive(row, wm) == row.createdAt >= wm
AfterWatermark(row, wm) == row.createdAt > wm

Matching(st, wm) ==
    {i \in CreditIds : Eligible(st[i]) /\ AfterWatermark(st[i], wm)}

Min(a, b) == IF a < b THEN a ELSE b

\* order by created_at asc limit ?: every answer the database may give. Rows
\* with equal created_at come in any order, and any of them may fill the limit.
QueryResults(st, wm, limit) ==
    LET M == Matching(st, wm)
        n == Min(Cardinality(M), limit)
    IN  {s \in [1..n -> M] :
            /\ \A j, k \in 1..n : j < k =>
                  /\ s[j] # s[k]
                  /\ st[s[j]].createdAt <= st[s[k]].createdAt
            /\ \A m \in M : (\A j \in 1..n : s[j] # m) =>
                  \A j \in 1..n : st[s[j]].createdAt <= st[m].createdAt}

\* max := cur.newerThan
\*   (variant: var max time.Time, the zero time)
InitialMaxZero(wm) == DayStart
InitialMax(wm) == wm

\* if m.CreatedAt.After(max) { max = m.CreatedAt }
\*   (variant: max is never advanced)
AdvanceMaxNever(max, createdAt) == max
AdvanceMax(max, createdAt) == IF createdAt > max THEN createdAt ELSE max

\* The for rows.Next() loop from row j on (below).
\*   (variant: a row whose amount does not parse is skipped)
RECURSIVE IterateSkipping(_, _, _, _, _, _, _)
IterateSkipping(st, rows, j, stopAt, scanFailAt, max, acc) ==
    IF j > stopAt THEN [ret |-> "end", max |-> max, out |-> acc]
    ELSE IF j = scanFailAt THEN [ret |-> "scan", max |-> max, out |-> << >>]
    ELSE IF ~st[rows[j]].amountOK
        THEN IterateSkipping(st, rows, j + 1, stopAt, scanFailAt, max, acc)
    ELSE IterateSkipping(st, rows, j + 1, stopAt, scanFailAt,
                         AdvanceMax(max, st[rows[j]].createdAt), Append(acc, rows[j]))

\* The for rows.Next() loop from row j on. rows.Next() yields the rows up to
\* stopAt; Scan fails at row scanFailAt (0: never).
RECURSIVE Iterate(_, _, _, _, _, _, _)
Iterate(st, rows, j, stopAt, scanFailAt, max, acc) ==
    IF j > stopAt THEN [ret |-> "end", max |-> max, out |-> acc]
    ELSE IF j = scanFailAt THEN [ret |-> "scan", max |-> max, out |-> << >>]
    ELSE IF ~st[rows[j]].amountOK THEN [ret |-> "amount", max |-> max, out |-> << >>]
    ELSE Iterate(st, rows, j + 1, stopAt, scanFailAt,
                 AdvanceMax(max, st[rows[j]].createdAt), Append(acc, rows[j]))

Range(s) == {s[j] : j \in 1..Len(s)}

\* Next() when Prepare or Query fails: nothing is read, nothing advances.
CursorNextNoRows ==
    /\ UNCHANGED <<store, batchSize, newerThan, returned, writes>>
    /\ UNCHANGED <<recorderVars, createVars, repoVars, fieldsVars, workerVars, clock>>
    /\ \E e \in {"prepare", "query"} : err' = e
    /\ out' = << >>

\* Next() once the query has answered. rows.Next() yields stopAt rows; when it
\* stops before the last one the iteration ended on an error (rowsErr: rows.Err()
\* is non-nil), which may also come after the last row. Scan fails at one of
\* the rows yielded, or never.
CursorNextRows ==
    /\ UNCHANGED <<store, batchSize, writes>>
    /\ UNCHANGED <<recorderVars, createVars, repoVars, fieldsVars, workerVars, clock>>
    /\ \E rows \in QueryResults(store, newerThan, batchSize) :
       \E stopAt \in 0..Len(rows) :
       \E rowsErr \in (IF stopAt = Len(rows) THEN BOOLEAN ELSE {TRUE}) :
       \E scanFailAt \in 0..stopAt :
        /\ LET r == Iterate(store, rows, 1, stopAt, scanFailAt, InitialMax(newerThan), << >>)
           IN  IF r.ret = "end"
               THEN /\ newerThan' = r.max
                    /\ out' = r.out
                    /\ err' = IF rowsErr THEN "rows" ELSE "nil"
                    /\ returned' = returned \cup Range(r.out)
               ELSE /\ err' = r.ret
                    /\ out' = << >>
                    /\ UNCHANGED <<newerThan, returned>>

CursorNext == CursorNextNoRows \/ CursorNextRows

-----------------------------------------------------------------------------
(* The rest of the program writing micro_deposits while a cursor is alive *)

InsertCredit ==
    \E i \in CreditIds : \E row \in CreditRows :
        /\ store[i] = Absent
        /\ ~row.merged
        /\ store' = [store EXCEPT ![i] = row]
        /\ writes < MaxWrites /\ writes' = writes + 1
        /\ UNCHANGED <<batchSize, newerThan, out, err, returned>>
        /\ UNCHANGED <<recorderVars, createVars, repoVars, fieldsVars, workerVars, clock>>

\* merged_filename is set when the credit is merged into a file, and cleared
\* again when that file is abandoned.
SetMerged ==
    \E i \in CreditIds : \E b \in BOOLEAN :
        /\ store[i] # Absent /\ store[i] # Deleted /\ store[i].merged # b
        /\ store' = [store EXCEPT ![i].merged = b]
        /\ writes < MaxWrites /\ writes' = writes + 1
        /\ UNCHANGED <<batchSize, newerThan, out, err, returned>>
        /\ UNCHANGED <<recorderVars, createVars, repoVars, fieldsVars, workerVars, clock>>

SetDeleted ==
    \E i \in CreditIds :
        /\ store[i] # Absent /\ store[i] # Deleted
        /\ store' = [store EXCEPT ![i] = Deleted]
        /\ writes < MaxWrites /\ writes' = writes + 1
        /\ UNCHANGED <<batchSize, newerThan, out, err, returned>>
        /\ UNCHANGED <<recorderVars, createVars, repoVars, fieldsVars, workerVars, clock>>

-----------------------------------------------------------------------------
(* route.IdempotentRecorder and route.NewResponder                         *)
(* Their code is not in the source tree; they are modelled from the        *)
(* recorder's contract and from TestRoute__Idempotency.                    *)

Keys == {"k1", "k2"}
NoKey == "none"

\* SeenBefore(key): whether the key was recorded; the call records it.
SeenBefore(s, k) == k \in s
\*   (variant: only the latest key is kept)
RecordKeyLatestOnly(s, k) == {k}
RecordKey(s, k) == s \cup {k}

Nil == "nil"

\* NewResponder: nil once the idempotency key of the request was seen (the
\* precondition-failed answer is written on the way), a responder otherwise.
NewResponder(s, k) ==
    IF k # NoKey /\ SeenBefore(s, k) THEN Nil ELSE "responder"

\* The recorder after a request with key k went through NewResponder.
AfterResponder(s, k) == IF k = NoKey THEN s ELSE RecordKey(s, k)

-----------------------------------------------------------------------------
(* createUserTransfers *)

MaxRequests == 2      \* transfer requests in one body
MaxSubmissions == 2   \* creations submitted with one idempotency key
MaxTransfers == 2     \* records the transfer repository can hold

TransferIds == 1..MaxTransfers
NoTransfer == [none |-> TRUE]

\* The JSON fields missingFields() looks at, and "amount", which the request
\* carries too.
CheckedFields == {"transferType", "originator", "originatorDepository",
                  "receiver", "receiverDepository", "standardEntryClassCode"}
RequestFields == CheckedFields \cup {"amount"}

\* transferRequest.missingFields: the fields it reports, none when the error is nil
missingFields(absent) == absent \cap CheckedFields

\* The requests a body may carry: which fields each leaves empty.
AbsentChoices == {{}, {"amount"}, {"transferType", "receiver"}}
Requests == [absent : AbsentChoices]

SeqsUpTo(S, n) == UNION {[1..m -> S] : m \in 0..n}

\* A body is one JSON object, a JSON array of objects, or not JSON at all.
Bodies ==
    [shape : {"object"}, requests : [1..1 -> Requests]]
        \cup [shape : {"array"}, requests : SeqsUpTo(Requests, MaxRequests)]
        \cup [shape : {"malformed"}, requests : {<< >>}]

\* readTransferRequests: the error it returns ("nil": the requests were read)
readTransferRequests(b) ==
    IF b.shape = "malformed" THEN "json"
    ELSE IF b.shape = "object" /\ missingFields(b.requests[1].absent) # {} THEN "missing"
    ELSE IF Len(b.requests) = 0 THEN "no Transfer request objects found"
    ELSE "nil"

EntityStates == {"ok", "notfound", "invalid"}
\* "invalid": a Verified depository whose Validate() fails
DepositoryStates == {"Verified", "Unverified", "notfound", "invalid"}

Objects == [receiver : EntityStates, receiverDep : DepositoryStates,
            orig : EntityStates, origDep : DepositoryStates]
NoObjects == [receiver |-> "unread", receiverDep |-> "unread",
              orig |-> "unread", origDep |-> "unread"]

\* getTransferObjects: the error it returns ("nil": all four objects are good)
\*   (variant: the status of the receiver depository is not looked at)
getTransferObjectsNoReceiverStatus(o) ==
    IF o.receiver = "notfound" THEN "receiver not found"
    ELSE IF o.receiver = "invalid" THEN "receiver: invalid"
    ELSE IF o.receiverDep = "notfound" THEN "receiver depository not found"
    ELSE IF o.receiverDep = "invalid" THEN "receiver depository: invalid"
    ELSE IF o.orig = "notfound" THEN "originator not found"
    ELSE IF o.orig = "invalid" THEN "originator: invalid"
    ELSE IF o.origDep = "notfound" THEN "originator Depository not found"
    ELSE IF o.origDep # "Verified" THEN "originator Depository status"
    ELSE "nil"
getTransferObjects(o) ==
    IF o.receiver = "notfound" THEN "receiver not found"
    ELSE IF o.receiver = "invalid" THEN "receiver: invalid"
    ELSE IF o.receiverDep = "notfound" THEN "receiver depository not found"
    ELSE IF o.receiverDep = "Unverified" THEN "receiver depository status"
    ELSE IF o.receiverDep = "invalid" THEN "receiver depository: invalid"
    ELSE IF o.orig = "notfound" THEN "originator not found"
    ELSE IF o.orig = "invalid" THEN "originator: invalid"
    ELSE IF o.origDep = "notfound" THEN "originator Depository not found"
    ELSE IF o.origDep = "Unverified" THEN "originator Depository status"
    ELSE IF o.origDep = "invalid" THEN "originator depository: invalid"
    ELSE "nil"

\* if responder == nil { return }
\*   (variant: the nil check is missing)
ReturnsWithoutResponderNever(responder) == FALSE
ReturnsWithoutResponder(responder) == responder = Nil

\* The stage that follows `stage` in the body of the for loop, given which
\* optional clients are configured; "next" ends the iteration.
\*   (variant: the ledger post precedes the limit check, the upload the
\*   customer checks)
StageAfterReordered(stage, c) ==
    CASE stage = "objects" -> IF c.accounts THEN "ledger" ELSE "limit"
      [] stage = "ledger" -> "limit"
      [] stage = "limit" -> "construct"
      [] stage = "construct" -> "upload"
      [] stage = "upload" -> IF c.customers THEN "status" ELSE "check"
      [] stage = "status" -> "disclaimers"
      [] stage = "disclaimers" -> "check"
      [] stage = "check" -> "event"
      [] stage = "event" -> "next"
StageAfter(stage, c) ==
    CASE stage = "objects" -> "limit"
      [] stage = "limit" ->
            IF c.accounts THEN "ledger"
            ELSE IF c.customers THEN "status" ELSE "construct"
      [] stage = "ledger" -> IF c.customers THEN "status" ELSE "construct"
      [] stage = "status" -> "disclaimers"
      [] stage = "disclaimers" -> "construct"
      [] stage = "construct" -> "upload"
      [] stage = "upload" -> "check"
      [] stage = "check" -> "event"
      [] stage = "event" -> "next"

\* if err := c.transferLimitChecker.allowTransfer(...); err != nil { ...; return }
\*   (variant: the error is dropped)
LimitRejectsNever(ok) == FALSE
LimitRejects(ok) == ~ok

Call(op, i, ok) == [op |-> op, i |-> i, ok |-> ok]

\* responder.Problem(err); return
\*   (variant: the return is missing and the stage is gone through again)
ProblemWithoutReturn ==
    /\ resp' = "problem"
    /\ pc' = pc
Problem ==
    /\ resp' = "problem"
    /\ pc' = "done"

\* The stage passed: on to the next stage, the next request, or persistence.
\* o: the objects of this iteration, which end with it.
\*   (variant: the records are persisted as soon as one request is through)
AdvancePersistsEarly(stage, o) ==
    LET nxt == StageAfter(stage, cfg)
    IN  /\ resp' = resp
        /\ IF nxt # "next" THEN pc' = nxt /\ idx' = idx /\ objs' = o
           ELSE pc' = "persist" /\ idx' = idx /\ objs' = NoObjects
Advance(stage, o) ==
    LET nxt == StageAfter(stage, cfg)
    IN  /\ resp' = resp
        /\ IF nxt # "next" THEN pc' = nxt /\ idx' = idx /\ objs' = o
           ELSE IF idx < Len(body.requests)
           THEN pc' = "objects" /\ idx' = idx + 1 /\ objs' = NoObjects
           ELSE pc' = "persist" /\ idx' = idx /\ objs' = NoObjects

FreeIds == {t \in TransferIds : transfers[t] = NoTransfer}

\* A request arrives: NewResponder, readTransferRequests, the ACH client and
\* the idempotency key are set up, and the loop is entered.
CreateStart ==
    \E k \in Keys \cup {NoKey} : \E b \in Bodies :
        /\ pc = "idle"
        /\ k # NoKey => submitted[k] < MaxSubmissions
        /\ Len(b.requests) <= Cardinality(FreeIds)
        /\ key' = k /\ body' = b
        /\ nth' = IF k = NoKey THEN 0 ELSE submitted[k] + 1
        /\ submitted' = IF k = NoKey THEN submitted
                        ELSE [submitted EXCEPT ![k] = @ + 1]
        /\ seen' = AfterResponder(seen, k)
        /\ log' = << >> /\ idx' = 1 /\ objs' = NoObjects
        /\ IF ReturnsWithoutResponder(NewResponder(seen, k))
           THEN resp' = "preconditionFailed" /\ pc' = "done"
           ELSE IF readTransferRequests(b) # "nil"
           THEN Problem
           ELSE resp' = "none" /\ pc' = "objects"
        /\ UNCHANGED <<cfg, okKeys, seenLog, transfers, del>>
        /\ UNCHANGED <<cursorVars, fieldsVars, workerVars, clock>>

\* missingFields of requests[i], then getTransferObjects: the repositories
\* answer for the four ids the request names.
GetTransferObjects ==
    /\ pc = "objects"
    /\ IF missingFields(body.requests[idx].absent) # {}
       THEN Problem /\ UNCHANGED <<objs, log, idx>>
       ELSE \E o \in Objects :
              /\ log' = Append(log, Call("objects", idx, getTransferObjects(o) = "nil"))
              /\ IF getTransferObjects(o) # "nil"
                 THEN Problem /\ idx' = idx /\ objs' = o
                 ELSE Advance("objects", o)
    /\ UNCHANGED <<cfg, key, body, nth, submitted, okKeys, transfers, del,
                   recorderVars, cursorVars, fieldsVars, workerVars, clock>>

\* c.transferLimitChecker.allowTransfer(userID)
AllowTransfer ==
    /\ pc = "limit"
    /\ \E ok \in BOOLEAN :
        /\ log' = Append(log, Call("limit", idx, ok))
        /\ IF LimitRejects(ok)
           THEN Problem /\ idx' = idx /\ objs' = objs
           ELSE Advance("limit", objs)
    /\ UNCHANGED <<cfg, key, body, nth, submitted, okKeys, transfers, del,
                   recorderVars, cursorVars, fieldsVars, workerVars, clock>>

\* A call of one of the other collaborators of the loop; its error ends the call.
Collaborator(stage) ==
    /\ pc = stage
    /\ \E ok \in BOOLEAN :
        /\ log' = Append(log, Call(stage, idx, ok))
        /\ IF ok
           THEN Advance(stage, objs)
           ELSE Problem /\ idx' = idx /\ objs' = objs
    /\ UNCHANGED <<cfg, key, body, nth, submitted, okKeys, transfers, del,
                   recorderVars, cursorVars, fieldsVars, workerVars, clock>>

PostAccountTransaction == Collaborator("ledger")
VerifyCustomerStatuses == Collaborator("status")
VerifyDisclaimersAreAccepted == Collaborator("disclaimers")
ConstructFile == Collaborator("construct")
CreateFile == Collaborator("upload")
CheckFile == Collaborator("check")
WriteTransferEvent == Collaborator("event")

\* The ids the new records get: base.ID() draws fresh ones.
RECURSIVE Lowest(_, _)
Lowest(S, n) ==
    IF n = 0 THEN {}
    ELSE LET m == CHOOSE x \in S : \A y \in S : x <= y
         IN  {m} \cup Lowest(S \ {m}, n - 1)

\* writeResponse: what is rendered for reqCount requests
writeResponse(reqCount) == IF reqCount = 1 THEN "object" ELSE "array"

\* c.transferRepo.createUserTransfers, then writeResponse
CreateUserTransfers ==
    /\ pc = "persist"
    /\ \E ok \in BOOLEAN :
        /\ log' = Append(log, Call("persist", 0, ok))
        /\ IF ok
           THEN /\ transfers' =
                     [t \in TransferIds |->
                        IF t \in Lowest(FreeIds, Len(body.requests))
                        THEN [status |-> "Pending", file |-> TRUE, deleted |-> FALSE]
                        ELSE transfers[t]]
                /\ resp' = writeResponse(Len(body.requests))
                /\ pc' = "done"
                /\ okKeys' = IF key = NoKey THEN okKeys ELSE okKeys \cup {key}
           ELSE Problem /\ UNCHANGED <<transfers, okKeys>>
    /\ UNCHANGED <<cfg, key, body, idx, objs, nth, submitted, del,
                   recorderVars, cursorVars, fieldsVars, workerVars, clock>>

\* The handler has returned: the locals of the call are gone, and the next
\* request may arrive.
Return ==
    /\ pc = "done"
    /\ pc' = "idle" /\ key' = NoKey
    /\ body' = [shape |-> "malformed", requests |-> << >>]
    /\ idx' = 1 /\ objs' = NoObjects /\ log' = << >> /\ resp' = "none" /\ nth' = 0
    /\ UNCHANGED <<cfg, submitted, okKeys, transfers, del>>
    /\ UNCHANGED <<recorderVars, cursorVars, fieldsVars, workerVars, clock>>

-----------------------------------------------------------------------------
(* deleteUserTransfer and the transfer repository *)

TransferRecords ==
    [status : {"Pending", "Completed", "Failed"}, file : BOOLEAN, deleted : BOOLEAN]

NoDelete == [id |-> 0]

\* c.transferRepo.getUserTransfer: a deleted or missing record is not found
Found(rec) == rec # NoTransfer /\ ~rec.deleted

\* if transfer.Status != model.TransferPending { Problem; return }
\*   (variant: only Failed transfers are kept)
DeletableUnlessFailed(rec) == rec.status # "Failed"
Deletable(rec) == rec.status = "Pending"

\* achclient.DeleteFile: a file the ACH service no longer holds counts as deleted
\*   (variant: "not found" is an error like any other)
DeleteFileErrorAlsoNotFound(remote) == remote # "ok"
DeleteFileError(remote) == remote = "error"

\* What the handler does from the status check on, for a record it has read.
\*   dbOK   : transferRepo.deleteUserTransfer returned nil
\*   fileErr: GetFileIDForTransfer returned an error other than sql.ErrNoRows
\*   remote : how the ACH service answers DeleteFile
DeleteOutcome(rec, dbOK, fileErr, remote) ==
    IF ~Deletable(rec)
        THEN [resp |-> "problem", after |-> rec, calls |-> << >>, remote |-> "none"]
    ELSE IF ~dbOK
        THEN [resp |-> "problem", after |-> rec, calls |-> <<"deleteUserTransfer">>,
              remote |-> "none"]
    ELSE LET gone == [rec EXCEPT !.deleted = TRUE]
         IN  IF fileErr
                THEN [resp |-> "problem", after |-> gone, remote |-> "none",
                      calls |-> <<"deleteUserTransfer", "GetFileIDForTransfer">>]
             ELSE IF ~rec.file
                THEN [resp |-> "ok", after |-> gone, remote |-> "none",
                      calls |-> <<"deleteUserTransfer", "GetFileIDForTransfer">>]
             ELSE [resp |-> IF DeleteFileError(remote) THEN "problem" ELSE "ok",
                   after |-> gone, remote |-> remote,
                   calls |-> <<"deleteUserTransfer", "GetFileIDForTransfer", "DeleteFile">>]

\* Every way the handler may go on for a record it has read, over the answers
\* of the repository and of the ACH service.
DeleteOutcomes(rec) ==
    {DeleteOutcome(rec, dbOK, fileErr, remote) :
        dbOK \in BOOLEAN, fileErr \in BOOLEAN, remote \in {"ok", "notfound", "error"}}

\* found: getUserTransfer returned the record (it may fail on a record it holds)
DeleteUserTransfer ==
    /\ UNCHANGED <<seenLog, createVars, cursorVars, fieldsVars, workerVars, clock>>
    /\ \E k \in Keys \cup {NoKey} : \E t \in TransferIds :
        /\ seen' = AfterResponder(seen, k)
        /\ IF ReturnsWithoutResponder(NewResponder(seen, k))
           THEN /\ del' = [id |-> t, resp |-> "preconditionFailed", calls |-> << >>,
                               remote |-> "none"]
                /\ transfers' = transfers
           ELSE \E found \in {Found(transfers[t]), FALSE} :
                IF ~found
                THEN /\ del' = [id |-> t, resp |-> "problem", remote |-> "none",
                                calls |-> <<"getUserTransfer">>]
                     /\ transfers' = transfers
                ELSE \E o \in DeleteOutcomes(transfers[t]) :
                     /\ del' = [id |-> t, resp |-> o.resp, remote |-> o.remote,
                                calls |-> <<"getUserTransfer">> \o o.calls]
                     /\ transfers' = [transfers EXCEPT ![t] = o.after]

\* Settlement feedback from the ACH network ends a Pending transfer.
Settle ==
    /\ UNCHANGED <<del, recorderVars, createVars, cursorVars, fieldsVars, workerVars, clock>>
    /\ \E t \in TransferIds : \E s \in {"Completed", "Failed"} :
        /\ Found(transfers[t]) /\ transfers[t].status = "Pending"
        /\ transfers' = [transfers EXCEPT ![t].status = s]

-----------------------------------------------------------------------------
(* The recorder on its own: TestRoute__Idempotency *)

MaxSeenCalls == 5     \* SeenBefore calls in one run

\* IdempotentRecorder.SeenBefore(key), called directly
DirectSeenBefore ==
    \E k \in Keys :
        /\ Len(seenLog) < MaxSeenCalls
        /\ seenLog' = Append(seenLog, <<k, SeenBefore(seen, k)>>)
        /\ seen' = RecordKey(seen, k)
        /\ UNCHANGED <<createVars, repoVars, cursorVars, fieldsVars, workerVars, clock>>

\* A GET /test request: NewResponder, then Respond writes 200 and "PONG"
PingRequest ==
    \E k \in Keys \cup {NoKey} :
        /\ Len(seenLog) < MaxSeenCalls
        /\ key' = k
        /\ seenLog' = IF k = NoKey THEN seenLog
                      ELSE Append(seenLog, <<k, SeenBefore(seen, k)>>)
        /\ seen' = AfterResponder(seen, k)
        /\ resp' = IF NewResponder(seen, k) = Nil THEN "preconditionFailed" ELSE "ok"
        /\ UNCHANGED <<cfg, pc, body, idx, objs, log, nth, submitted, okKeys,
                       repoVars, cursorVars, fieldsVars, workerVars, clock>>

-----------------------------------------------------------------------------
(* transferRequest.missingFields on one request *)

NotCalled == [called |-> FALSE, names |-> {}]

NoFields == request = {} /\ missing = NotCalled

\* req.missingFields(), as readTransferRequests and the loop of
\* createUserTransfers call it on a decoded request
MissingFields ==
    /\ missing = NotCalled
    /\ missing' = [called |-> TRUE, names |-> missingFields(request)]
    /\ UNCHANGED <<request, workerVars, clock>>
    /\ UNCHANGED <<cursorVars, recorderVars, createVars, repoVars>>

-----------------------------------------------------------------------------
(* Cursor.Next called by several workers on one *Cursor                    *)
(* Nothing in Next() synchronises the accesses to cur.newerThan, so the    *)
(* calls of two workers interleave at its reads (lines 45 and 51) and its  *)
(* write (line 69). An access that runs into the write of another call is  *)
(* a data race on a multi-word time.Time: it may see or leave any value.   *)
(* Each worker calls Next() once.                                          *)

Workers == {"w1", "w2"}

NoWorkers ==
    /\ wpc = [w \in Workers |-> "idle"]
    /\ wrows = [w \in Workers |-> << >>]
    /\ wmax = [w \in Workers |-> DayStart]
    /\ got = [w \in Workers |-> {}]
    /\ overlapped = FALSE

\* Worker v is inside Next().
InCall(v) == wpc[v] \in {"queried", "iterating"}

\* Another worker stands before its cur.newerThan = max.
Racing(w) == \E v \in Workers \ {w} : wpc[v] = "iterating"

\* What a read of cur.newerThan by w may yield.
ReadNewerThan(w) == IF Racing(w) THEN {DayStart} \cup Times ELSE {newerThan}

\* What cur.newerThan may hold after w has written v to it.
\*   (variant: the write is lost)
WriteNewerThanLost(w, v) == {newerThan}
WriteNewerThan(w, v) == IF Racing(w) THEN {DayStart} \cup Times ELSE {v}

\* stmt.Query(cur.newerThan, cur.BatchSize). A call whose Prepare or Query
\* fails returns at once and leaves everything as it was.
WorkerQuery(w) ==
    /\ wpc[w] = "idle"
    /\ \E wm \in ReadNewerThan(w) : \E rows \in QueryResults(store, wm, batchSize) :
          wrows' = [wrows EXCEPT ![w] = rows]
    /\ wpc' = [wpc EXCEPT ![w] = "queried"]
    /\ overlapped' = (overlapped \/ \E v \in Workers \ {w} : InCall(v))
    /\ UNCHANGED <<wmax, got, fieldsVars, clock>>
    /\ UNCHANGED <<cursorVars, recorderVars, createVars, repoVars>>

\* max := cur.newerThan
WorkerReadMax(w) ==
    /\ wpc[w] = "queried"
    /\ \E wm \in ReadNewerThan(w) : wmax' = [wmax EXCEPT ![w] = InitialMax(wm)]
    /\ wpc' = [wpc EXCEPT ![w] = "iterating"]
    /\ UNCHANGED <<wrows, got, overlapped, fieldsVars, clock>>
    /\ UNCHANGED <<cursorVars, recorderVars, createVars, repoVars>>

\* The ways the for rows.Next() loop of w may end, over the rows rows.Next()
\* yields and the row Scan fails at: whether line 69 is reached, and with which
\* max and which credits.
LoopOutcomes(w) ==
    UNION {{LET r == Iterate(store, wrows[w], 1, stopAt, scanFailAt, wmax[w], << >>)
            IN  IF r.ret = "end"
                THEN [ended |-> TRUE, max |-> r.max, credits |-> Range(r.out)]
                ELSE [ended |-> FALSE, max |-> wmax[w], credits |-> {}]
            : scanFailAt \in 0..stopAt} : stopAt \in 0..Len(wrows[w])}

\* The for rows.Next() loop, cur.newerThan = max, and the return.
WorkerReturn(w) ==
    /\ wpc[w] = "iterating"
    /\ \E o \in LoopOutcomes(w) :
          IF o.ended
          THEN /\ newerThan' \in WriteNewerThan(w, o.max)
               /\ got' = [got EXCEPT ![w] = @ \cup o.credits]
          ELSE UNCHANGED <<newerThan, got>>
    /\ wpc' = [wpc EXCEPT ![w] = "returned"]
    /\ wrows' = [wrows EXCEPT ![w] = << >>]
    /\ wmax' = [wmax EXCEPT ![w] = DayStart]
    /\ UNCHANGED <<store, batchSize, out, err, returned, writes, overlapped>>
    /\ UNCHANGED <<recorderVars, createVars, repoVars, fieldsVars, clock>>

-----------------------------------------------------------------------------
(* SQLRepo.GetCursor and the server's clock                                *)
(* Instants are counted in ticks from a UTC midnight. The other parts take *)
(* the watermark of a new cursor as the origin of their created_at values. *)

TicksPerDay == 4     \* clock ticks in a day
MaxDays == 2         \* days over which time.Now() ranges

Instants == TicksPerDay..((MaxDays + 1) * TicksPerDay - 1)
\* The offsets of time.Local from UTC: less than a day, east or west.
Offsets == (1 - TicksPerDay)..(TicksPerDay - 1)

NoClock == clock = [now |-> TicksPerDay, zone |-> 0, made |-> FALSE]

\* now.Year(), now.Month(), now.Day(): the calendar day of now in time.Local
LocalDate(now, zone) == (now + zone) \div TicksPerDay

\* time.Date(year, month, day, 0, 0, 0, 0, time.UTC): UTC midnight of that day
DateUTC(day) == day * TicksPerDay

\* GetCursor(batchSize) called at clock.now on a server whose zone is clock.zone
NewCursor ==
    /\ ~clock.made
    /\ clock' = [clock EXCEPT !.made = TRUE]
    /\ newerThan' = DateUTC(LocalDate(clock.now, clock.zone))
    /\ \E bs \in 1..MaxBatch : batchSize' = bs
    /\ UNCHANGED <<store, out, err, returned, writes>>
    /\ UNCHANGED <<recorderVars, createVars, repoVars, fieldsVars, workerVars>>

-----------------------------------------------------------------------------
(* Specifications *)

\* GetCursor(batchSize): the watermark starts at the day's first instant.
GetCursor(bs) ==
    /\ batchSize = bs
    /\ newerThan = DayStart
    /\ out = << >>
    /\ err = "unset"
    /\ returned = {}
    /\ writes = 0

NoCursor ==
    /\ store = [i \in CreditIds |-> Absent]
    /\ GetCursor(1)

NoRecorder == seen = {} /\ seenLog = << >>

NoCreate ==
    /\ pc = "idle" /\ key = NoKey
    /\ body = [shape |-> "malformed", requests |-> << >>]
    /\ idx = 1 /\ objs = NoObjects /\ log = << >> /\ resp = "none"
    /\ nth = 0 /\ submitted = [k \in Keys |-> 0] /\ okKeys = {}

NoRepo == transfers = [t \in TransferIds |-> NoTransfer] /\ del = NoDelete

\* A cursor over a table other code keeps writing.
InitCursor ==
    /\ store = [i \in CreditIds |-> Absent]
    /\ \E bs \in 1..MaxBatch : GetCursor(bs)
    /\ cfg = [accounts |-> TRUE, customers |-> TRUE]
    /\ NoRecorder /\ NoCreate /\ NoRepo /\ NoFields /\ NoWorkers /\ NoClock

NextCursor == CursorNext \/ InsertCredit \/ SetMerged \/ SetDeleted

SpecCursor == InitCursor /\ [][NextCursor]_vars

\* A cursor draining a table nobody else writes.
InitDrain ==
    /\ store \in [CreditIds -> CreditRows \cup {Absent, Deleted}]
    /\ \E bs \in 1..MaxBatch : GetCursor(bs)
    /\ cfg = [accounts |-> TRUE, customers |-> TRUE]
    /\ NoRecorder /\ NoCreate /\ NoRepo /\ NoFields /\ NoWorkers /\ NoClock

NextDrain == CursorNext

SpecDrain == InitDrain /\ [][NextDrain]_vars

\* The recorder, called directly and through requests.
InitRecorder ==
    /\ cfg = [accounts |-> TRUE, customers |-> TRUE]
    /\ NoRecorder /\ NoCreate /\ NoRepo /\ NoCursor /\ NoFields /\ NoWorkers /\ NoClock

NextRecorder == DirectSeenBefore \/ PingRequest

SpecRecorder == InitRecorder /\ [][NextRecorder]_vars

\* Transfer creation, one call after the other. The ledger client and the
\* customers client are each configured or nil.
InitCreate ==
    /\ cfg \in [accounts : BOOLEAN, customers : BOOLEAN]
    /\ NoRecorder /\ NoCreate /\ NoRepo /\ NoCursor /\ NoFields /\ NoWorkers /\ NoClock

NextCreate ==
    \/ CreateStart
    \/ GetTransferObjects
    \/ AllowTransfer
    \/ PostAccountTransaction
    \/ VerifyCustomerStatuses
    \/ VerifyDisclaimersAreAccepted
    \/ ConstructFile
    \/ CreateFile
    \/ CheckFile
    \/ WriteTransferEvent
    \/ CreateUserTransfers
    \/ Return

SpecCreate == InitCreate /\ [][NextCreate]_vars

\* Deletion of transfers the repository holds, while settlement goes on.
InitDelete ==
    /\ transfers \in [TransferIds ->
                        {NoTransfer} \cup [status : {"Pending"}, file : BOOLEAN,
                                           deleted : {FALSE}]]
    /\ del = NoDelete
    /\ cfg = [accounts |-> TRUE, customers |-> TRUE]
    /\ NoRecorder /\ NoCreate /\ NoCursor /\ NoFields /\ NoWorkers /\ NoClock

NextDelete == DeleteUserTransfer \/ Settle

SpecDelete == InitDelete /\ [][NextDelete]_vars

\* missingFields() on a request leaving any set of its fields empty.
InitFields ==
    /\ request \in SUBSET RequestFields
    /\ missing = NotCalled
    /\ cfg = [accounts |-> TRUE, customers |-> TRUE]
    /\ NoRecorder /\ NoCreate /\ NoRepo /\ NoCursor /\ NoWorkers /\ NoClock

NextFields == MissingFields

SpecFields == InitFields /\ [][NextFields]_vars

\* Two workers calling Next() on one new cursor, over a table nobody writes.
\* The credits are numbered in the order of their insertion, which stamps
\* created_at; Next() never looks at the numbers.
InitWorkers ==
    /\ store \in [CreditIds -> {Absent} \cup {row \in CreditRows : ~row.merged}]
    /\ \A i, j \in CreditIds :
          (i < j /\ store[j] # Absent) =>
              IF store[i] = Absent THEN FALSE
              ELSE store[i].createdAt <= store[j].createdAt
    /\ \E bs \in 1..MaxBatch : GetCursor(bs)
    /\ cfg = [accounts |-> TRUE, customers |-> TRUE]
    /\ NoRecorder /\ NoCreate /\ NoRepo /\ NoFields /\ NoWorkers /\ NoClock

NextWorkers ==
    \E w \in Workers : WorkerQuery(w) \/ WorkerReadMax(w) \/ WorkerReturn(w)

SpecWorkers == InitWorkers /\ [][NextWorkers]_vars

\* A cursor made at any instant, on a server in any zone.
InitClock ==
    /\ clock \in [now : Instants, zone : Offsets, made : {FALSE}]
    /\ cfg = [accounts |-> TRUE, customers |-> TRUE]
    /\ NoRecorder /\ NoCreate /\ NoRepo /\ NoCursor /\ NoFields /\ NoWorkers

NextClock == NewCursor

SpecClock == InitClock /\ [][NextClock]_vars

-----------------------------------------------------------------------------
(* Properties of the cursor *)

CreatedAt(i) == store[i].createdAt

\* The rows the query of a Next() call selects from: eligible, after the watermark.
Pending == {i \in CreditIds : Eligible(store[i]) /\ CreatedAt(i) > newerThan}

\* A step of Next(): under SpecCursor every other step is a write to the table,
\* which counts in writes.
NextCalled == writes' = writes /\ store' = store

RECURSIVE MaxCreated(_)
MaxCreated(s) ==
    IF Len(s) = 1 THEN CreatedAt(s[1])
    ELSE LET m == MaxCreated(Tail(s))
         IN  IF CreatedAt(s[1]) > m THEN CreatedAt(s[1]) ELSE m

\* C6: a successful Next() returns at most BatchSize credits, each eligible and
\* created strictly after the watermark the call started with, in ascending
\* created_at order, and no pending credit left out is older than one returned;
\* the watermark then is the newest created_at of the batch, or unchanged when
\* the batch is empty.
C6_BatchAndWatermark ==
    [][(NextCalled /\ err' = "nil") =>
        /\ Len(out') <= batchSize
        /\ Range(out') \subseteq Pending
        /\ \A j, k \in 1..Len(out') : j < k =>
              out'[j] # out'[k] /\ CreatedAt(out'[j]) <= CreatedAt(out'[k])
        /\ \A m \in Pending \ Range(out') :
              /\ Len(out') = batchSize
              /\ \A j \in 1..Len(out') : CreatedAt(out'[j]) <= CreatedAt(m)
        /\ newerThan' = IF out' = << >> THEN newerThan ELSE MaxCreated(out')
      ]_vars

\* The end of t1 < t2 < t3 read with batch size 2: [t1, t2], then [t3], then
\* the empty batch with the watermark at t3.
C6_Witness ==
    /\ batchSize = 2 /\ err = "nil" /\ out = << >>
    /\ returned = {1, 2, 3}
    /\ \A i \in {1, 2, 3} : Eligible(store[i]) /\ store[i].amountOK
    /\ {CreatedAt(i) : i \in {1, 2, 3}} = {1, 2, 3}
    /\ newerThan = 3

\* C7: over the Next() calls of one cursor no credit is returned twice, and a
\* credit created at or before the watermark is never returned, whenever it
\* was inserted or became eligible.
C7_NeverTwiceNeverBehind ==
    [][NextCalled =>
        /\ Range(out') \cap returned = {}
        /\ \A j, k \in 1..Len(out') : j < k => out'[j] # out'[k]
        /\ \A j \in 1..Len(out') : CreatedAt(out'[j]) > newerThan
      ]_vars

\* An eligible credit sits at or before the watermark, unreturned, after the
\* cursor has handed out others and has just answered with an empty batch.
C7_Witness ==
    /\ returned # {} /\ err = "nil" /\ out = << >>
    /\ \E i \in CreditIds \ returned :
          Eligible(store[i]) /\ CreatedAt(i) <= newerThan

\* C8: draining a table nobody writes and whose amounts are all well-formed,
\* Next() never skips a pending credit: once a call has answered with an empty
\* batch, every eligible credit created after the cursor's first watermark has
\* been returned, ties included.
C8_NoPendingCreditSkipped ==
    (/\ err = "nil" /\ out = << >>
     /\ \A i \in CreditIds : Eligible(store[i]) => store[i].amountOK) =>
        \A i \in CreditIds :
            (Eligible(store[i]) /\ CreatedAt(i) > DayStart) => i \in returned

\* C9: the watermark never decreases, whatever a Next() call returns.
C9_WatermarkMonotone == [][newerThan' >= newerThan]_vars

\* A call has failed after the watermark had advanced.
C9_Witness ==
    /\ newerThan > DayStart
    /\ err \in {"prepare", "query", "scan", "amount", "rows"}

-----------------------------------------------------------------------------
(* Properties of the recorder and of the handlers *)

\* C2: the first SeenBefore(k) answers false and every later one true, whatever
\* other keys are asked about in between.
C2_FirstFalseThenTrue ==
    \A j \in 1..Len(seenLog) :
        seenLog[j][2] = (\E h \in 1..(j - 1) : seenLog[h][1] = seenLog[j][1])

\* k1 is asked about, then k2, then k1 again.
C2_Witness ==
    /\ Len(seenLog) >= 3
    /\ SubSeq(seenLog, 1, 3) = << <<"k1", FALSE>>, <<"k2", FALSE>>, <<"k1", TRUE>> >>

\* C1: the first creation submitted with an idempotency key is not answered with
\* precondition-failed; every later one with that key is, and it makes no
\* collaborator call at all (no ledger post, no file upload, no persistence).
C1_DuplicateSubmission ==
    /\ nth >= 2 => (pc = "done" /\ resp = "preconditionFailed" /\ log = << >>)
    /\ nth = 1 => resp # "preconditionFailed"

\* The second submission of a key whose first submission was answered with success.
C1_Witness ==
    nth = 2 /\ resp = "preconditionFailed" /\ key \in okKeys

\* Call p of the log was preceded by a successful call of op for the same transfer.
Passed(p, op) == \E q \in 1..(p - 1) : log[q] = Call(op, log[p].i, TRUE)

\* C3: for one transfer, the ledger post comes only after entity validation and
\* the limit check have passed, and the file upload only after the ledger post
\* (with a ledger client) and the status and disclaimer checks (with a customers
\* client) have passed.
C3_SideEffectOrder ==
    \A p \in 1..Len(log) :
        /\ log[p].op = "ledger" => Passed(p, "objects") /\ Passed(p, "limit")
        /\ log[p].op = "upload" =>
              /\ Passed(p, "objects") /\ Passed(p, "limit")
              /\ cfg.accounts => Passed(p, "ledger")
              /\ cfg.customers => Passed(p, "status") /\ Passed(p, "disclaimers")

\* A file is uploaded with both optional clients configured.
C3_Witness ==
    /\ cfg.accounts /\ cfg.customers
    /\ \E p \in 1..Len(log) : log[p].op = "upload"

\* A depository that was found with a status other than Verified.
NotVerified(d) == d = "Unverified"

\* C4: a transfer whose receiver depository or originator depository is not
\* Verified is rejected, with no ledger post and no file upload for it.
C4_UnverifiedDepositoryRejected ==
    (NotVerified(objs.receiverDep) \/ NotVerified(objs.origDep)) =>
        /\ pc = "done" /\ resp = "problem"
        /\ \A p \in 1..Len(log) :
              log[p].i = idx => log[p].op \notin {"ledger", "upload"}

\* The second transfer of a call names an unverified originator depository,
\* everything else being in order.
C4_Witness ==
    /\ idx = 2 /\ resp = "problem"
    /\ objs = [receiver |-> "ok", receiverDep |-> "Verified",
               orig |-> "ok", origDep |-> "Unverified"]

\* C5: the limit check is made at most once per transfer and before that
\* transfer's ledger post and file upload; when it rejects transfer i the call
\* ends there: no ledger post, file upload, audit event or persistence for
\* transfer i, and no call at all for a later transfer.
C5_LimitCheckPerTransfer ==
    \A p \in 1..Len(log) :
        /\ log[p].op \in {"ledger", "upload"} => Passed(p, "limit")
        /\ log[p].op = "limit" =>
              /\ \A q \in 1..Len(log) :
                    (log[q].op = "limit" /\ log[q].i = log[p].i) => q = p
              /\ ~log[p].ok =>
                    /\ pc = "done" /\ resp = "problem"
                    /\ \A q \in 1..Len(log) :
                          /\ log[q].op # "persist"
                          /\ log[q].i <= log[p].i
                          /\ log[q].i = log[p].i =>
                                log[q].op \notin {"ledger", "upload", "event"}

\* The limit check rejects the first of two transfers.
C5_Witness ==
    /\ Len(body.requests) = 2
    /\ Len(log) > 0 /\ log[Len(log)] = Call("limit", 1, FALSE)

\* C10: a delete request for a transfer that is Completed or Failed is rejected,
\* leaves every record as it was and calls neither the repository's delete nor
\* the ACH service's DeleteFile; a record is deleted only from Pending.
C10_DeleteOnlyPending ==
    [][DeleteUserTransfer =>
        /\ (Found(transfers[del'.id]) /\ transfers[del'.id].status # "Pending") =>
              /\ del'.resp # "ok"
              /\ transfers' = transfers
              /\ \A c \in 1..Len(del'.calls) :
                    del'.calls[c] \notin {"deleteUserTransfer", "DeleteFile"}
        /\ \A t \in TransferIds :
              (Found(transfers[t]) /\ ~Found(transfers'[t])) =>
                  transfers[t].status = "Pending"
      ]_vars

\* The delete of a Completed transfer with an uploaded file was turned down.
C10_Witness ==
    /\ del # NoDelete /\ del.resp = "problem" /\ del.calls = <<"getUserTransfer">>
    /\ Found(transfers[del.id])
    /\ transfers[del.id].status = "Completed" /\ transfers[del.id].file

\* The calls the last delete request made include c.
DeleteCalled(c) == \E j \in 1..Len(del.calls) : del.calls[j] = c

\* C11: when the delete of a Pending transfer with an uploaded file gets an
\* error other than "not found" from the ACH service's DeleteFile, the request
\* fails and the transfer record is still in the repository.
C11_RemoteFailureKeepsRecord ==
    (del # NoDelete /\ del.remote = "error") =>
        (del.resp = "problem" /\ Found(transfers[del.id]))

C17_SerializedNoDuplicate ==
    ~overlapped =>
        \A v, w \in Workers : v # w => got[v] \cap got[w] = {}

\* Both workers have returned from overlapping calls with the same credit.
C17_Witness ==
    /\ overlapped
    /\ \A w \in Workers : wpc[w] = "returned"
    /\ got["w1"] \cap got["w2"] # {}

-----------------------------------------------------------------------------
(* Further properties of createUserTransfers *)

\* C13: the requests of a call are gone through one after the other, in order,
\* and the first failure ends the call: a failed collaborator call is the last
\* call of the handler, which has answered with one problem; no collaborator
\* is called for a request after the one the loop stands at, and a request is
\* looked at only when the one before it has passed every stage.
C13_FailureStopsCall ==
    /\ \A p \in 1..Len(log) :
          ~log[p].ok => (p = Len(log) /\ pc = "done" /\ resp = "problem")
    /\ \A p \in 1..Len(log) : log[p].op # "persist" =>
          /\ log[p].i <= idx
          /\ \A q \in 1..(p - 1) : log[q].i <= log[p].i
          /\ (log[p].op = "objects" /\ log[p].i > 1) =>
                \E q \in 1..(p - 1) : log[q] = Call("event", log[p].i - 1, TRUE)

\* The upload of the first of two transfers has failed and the call is over.
C13_Witness ==
    /\ Len(body.requests) = 2 /\ pc = "done" /\ resp = "problem" /\ idx = 1
    /\ log # << >> /\ log[Len(log)] = Call("upload", 1, FALSE)

\* C14: the response of a successful creation has the shape of the request
\* body: an object for an object, an array for an array, also for an array
\* of one transfer.
C14_ResponseMirrorsRequest ==
    resp \in {"object", "array"} => resp = body.shape

\* C15: missingFields() names every required field the request leaves empty,
\* the amount among them, and none when the request leaves none empty.
C15_EveryMissingFieldNamed ==
    missing.called => missing.names = request

\* C16: when a creation fails, whatever the stage, the audit sink has got an
\* event for the request that failed.
C16_FailureInAuditSink ==
    (pc = "done" /\ resp = "problem") =>
        \E p \in 1..Len(log) : log[p] = Call("event", idx, TRUE)

\* C20: the limit check of a transfer comes before its entity validation: the
\* repositories are asked for the objects of a transfer only once the limit
\* checker has let it pass.
C20_LimitBeforeEntityLookup ==
    \A p \in 1..Len(log) : log[p].op = "objects" => Passed(p, "limit")

-----------------------------------------------------------------------------
(* Further properties of the cursor *)

Malformed == {m \in Pending : ~store[m].amountOK}

\* C18: a Next() call never returns a credit whose amount is malformed, nor a
\* credit newer than a malformed row of its window; a call that comes upon a
\* malformed amount returns that error, no credits, and leaves the watermark;
\* and a call returns without error only if the limit kept every malformed
\* row of the window out of its batch.
C18_MalformedAmountIsFatal ==
    [][NextCalled =>
        /\ \A j \in 1..Len(out') :
              /\ store[out'[j]].amountOK
              /\ \A m \in Malformed : CreatedAt(out'[j]) <= CreatedAt(m)
        /\ err' = "amount" => (out' = << >> /\ newerThan' = newerThan)
        /\ (err' = "nil" /\ Malformed # {}) => Len(out') = batchSize
      ]_vars

\* A call with batch size 2 has read a well-formed credit, then failed on the
\* malformed amount of a newer one.
C18_Witness ==
    /\ err = "amount" /\ out = << >> /\ batchSize >= 2
    /\ \E i \in Pending : \E m \in Malformed :
          store[i].amountOK /\ CreatedAt(i) < CreatedAt(m)

\* C19: a Next() call that returns an error, whichever, leaves the watermark
\* as it was.
C19_WatermarkOnlyOnSuccess ==
    [][(NextCalled /\ err' # "nil") => newerThan' = newerThan]_vars

-----------------------------------------------------------------------------
(* Persistence of the transfers of a call *)

\* Request i has passed every stage of the loop: its audit event, the last
\* stage, is written.
Through(i) == \E p \in 1..Len(log) : log[p] = Call("event", i, TRUE)

\* C21: the transfer repository changes in one step only, the persistence that
\* follows the loop, when every request of the call has passed every stage,
\* and it then gets one record per request; a call that ends with a problem
\* has persisted no record, and the ledger posts, uploads and audit events
\* made for the requests before the failed one stay as they are.
C21_PersistedOnlyWhenAllPassed ==
    [][/\ transfers' # transfers =>
            /\ pc = "persist" /\ pc' = "done"
            /\ resp' = writeResponse(Len(body.requests))
            /\ \A i \in 1..Len(body.requests) : Through(i)
            /\ Cardinality({t \in TransferIds : transfers'[t] # transfers[t]})
                  = Len(body.requests)
       /\ resp' = "problem" =>
            /\ transfers' = transfers
            /\ \A p \in 1..Len(log) : p <= Len(log') /\ log'[p] = log[p]
      ]_vars

\* The second of two transfers failed its limit check: the first has its
\* uploaded file and its audit event, and the repository holds no record.
C21_Witness ==
    /\ pc = "done" /\ resp = "problem" /\ idx = 2
    /\ log[Len(log)] = Call("limit", 2, FALSE)
    /\ \E p \in 1..Len(log) : log[p] = Call("upload", 1, TRUE)
    /\ Through(1)
    /\ \A t \in TransferIds : transfers[t] = NoTransfer

-----------------------------------------------------------------------------
(* The watermark of a new cursor *)

\* The first instant of the day that holds t, in UTC and in the zone.
UTCDayStart(t) == (t \div TicksPerDay) * TicksPerDay
LocalDayStart(t, zone) == ((t + zone) \div TicksPerDay) * TicksPerDay - zone

\* C22: whatever the offset of the server's zone from UTC, the watermark of a
\* cursor GetCursor has made is the first instant of the day the cursor was
\* made on and is not later than the instant it was made at, so that a credit
\* created earlier on that day is after the watermark.
C22_WatermarkAtDayStart ==
    clock.made =>
        /\ newerThan \in {UTCDayStart(clock.now), LocalDayStart(clock.now, clock.zone)}
        /\ newerThan <= clock.now
        /\ \A c \in Instants :
              (UTCDayStart(clock.now) < c /\ c <= clock.now) =>
                  AfterWatermark([createdAt |-> c], newerThan)

====
